---- MODULE Spec2Model ----
(***************************************************************************)
(* Model of monitoringserver.go: a file-integrity monitor that keeps a     *)
(* map from path to SHA-256 digest (hashDB), rebuilds or loads it at       *)
(* startup (initHashDB), rescans the monitored directories on every tick   *)
(* (checkFiles) and rewrites the store file when a scan saw a change       *)
(* (saveHashDB).                                                           *)
(*                                                                         *)
(* The string functions work on sequences of one-character strings, so     *)
(* that the prefix, suffix, basename and glob tests of shouldExclude are   *)
(* computed on the characters as strings.HasPrefix, filepath.Base and      *)
(* filepath.Match do.  The state holds paths and patterns as TLA+ strings; *)
(* Chars gives the characters of each.                                     *)
(***************************************************************************)
EXTENDS Integers, Sequences, FiniteSets, TLC

\* ------------------------------------------------------------------------
\* Bounds of the model
\* ------------------------------------------------------------------------

\* number of changes the environment makes to the file tree in one run
MaxFsOps == 2

\* the most ticks the ticker fires before the loop takes one
MaxTicks == 3

\* ------------------------------------------------------------------------
\* Strings
\* ------------------------------------------------------------------------

\* the characters that occur in the paths and patterns of the model, in
\* byte order (sort.Strings in readDirNames and encoding/json's key order
\* compare strings bytewise).  "uFFFD" is the rune U+FFFD (the bytes EF BF
\* BD), "xFF" is the single byte FF, which is not valid UTF-8: on unix a
\* file name is any sequence of bytes without "/" and NUL.
Alphabet == <<"*", "/", "<", "a", "b", "c", "f", "h", "uFFFD", "xFF">>

Ord(ch) == CHOOSE i \in 1..Len(Alphabet) : Alphabet[i] = ch

\* s < t bytewise
RECURSIVE StrLess(_, _)
StrLess(s, t) ==
    IF t = <<>> THEN FALSE
    ELSE IF s = <<>> THEN TRUE
    ELSE IF Head(s) # Head(t) THEN Ord(Head(s)) < Ord(Head(t))
    ELSE StrLess(Tail(s), Tail(t))

\* the characters of the paths, names and patterns of the model
Chars(s) ==
    CASE s = "/a"       -> <<"/", "a">>
      [] s = "/a/b"     -> <<"/", "a", "/", "b">>
      [] s = "/a/b/c"   -> <<"/", "a", "/", "b", "/", "c">>
      [] s = "/a/b/c/h" -> <<"/", "a", "/", "b", "/", "c", "/", "h">>
      [] s = "/a/bf"    -> <<"/", "a", "/", "b", "f">>
      [] s = "/a/b/"    -> <<"/", "a", "/", "b", "/">>
      [] s = "*c"       -> <<"*", "c">>
      [] s = "/a/<"     -> <<"/", "a", "/", "<">>
      [] s = "/a/uFFFD" -> <<"/", "a", "/", "uFFFD">>
      [] s = "/a/xFF"   -> <<"/", "a", "/", "xFF">>

\* the strings of a finite set in increasing byte order
RECURSIVE SortStrings(_)
SortStrings(S) ==
    IF S = {} THEN <<>>
    ELSE LET m == CHOOSE x \in S : \A y \in S \ {x} : StrLess(Chars(x), Chars(y))
         IN  <<m>> \o SortStrings(S \ {m})

HasPrefix(s, prefix) ==
    Len(prefix) <= Len(s) /\ SubSeq(s, 1, Len(prefix)) = prefix

HasSuffix(s, suffix) ==
    Len(suffix) <= Len(s) /\ SubSeq(s, Len(s) - Len(suffix) + 1, Len(s)) = suffix

TrimSuffix(s, suffix) ==
    IF HasSuffix(s, suffix) THEN SubSeq(s, 1, Len(s) - Len(suffix)) ELSE s

Contains(s, ch) == \E i \in 1..Len(s) : s[i] = ch

\* os.PathSeparator of the platform the program is built for
Separator == "/"

\* filepath.ToSlash: every Separator becomes a slash
ToSlash(path) == [i \in 1..Len(path) |-> IF path[i] = Separator THEN "/" ELSE path[i]]

\* the index of the last Separator of s, 0 when there is none
LastSep(s) ==
    IF \E i \in 1..Len(s) : s[i] = Separator
    THEN CHOOSE i \in 1..Len(s) : s[i] = Separator /\ \A j \in (i+1)..Len(s) : s[j] # Separator
    ELSE 0

\* filepath.Base: trailing separators are dropped, then the last element
RECURSIVE Base(_)
Base(path) ==
    IF path = <<>> THEN <<".">>
    ELSE IF path[Len(path)] = Separator
         THEN IF Len(path) = 1 THEN <<Separator>> ELSE Base(SubSeq(path, 1, Len(path) - 1))
         ELSE SubSeq(path, LastSep(path) + 1, Len(path))

\* filepath.Dir of a cleaned path below the root of the file system
Dir(path) ==
    IF LastSep(path) <= 1 THEN <<Separator>> ELSE SubSeq(path, 1, LastSep(path) - 1)

\* filepath.Join(dir, name)
Join(dir, name) == dir \o <<Separator>> \o name

\* filepath.Match for patterns made of literal characters and '*': a star
\* matches any run of characters that are not the Separator
RECURSIVE Match(_, _)
Match(pattern, name) ==
    IF pattern = <<>> THEN name = <<>>
    ELSE IF Head(pattern) = "*"
         THEN \/ Match(Tail(pattern), name)
              \/ /\ name # <<>>
                 /\ Head(name) # Separator
                 /\ Match(pattern, Tail(name))
         ELSE /\ name # <<>>
              /\ Head(name) = Head(pattern)
              /\ Match(Tail(pattern), Tail(name))

\* ------------------------------------------------------------------------
\* shouldExclude
\* ------------------------------------------------------------------------

\* the verdict of one pattern on the normalized path
PatternExcludes(pattern, normalizedPath) ==
    IF HasSuffix(pattern, <<"/">>)
    THEN HasPrefix(normalizedPath, TrimSuffix(pattern, <<"/">>) \o <<"/">>)
    ELSE IF Contains(pattern, "*")
         THEN Match(pattern, Base(normalizedPath))
         ELSE normalizedPath = pattern

shouldExclude(path, excludePatterns) ==
    LET normalizedPath == ToSlash(Chars(path))
    IN  \E i \in 1..Len(excludePatterns) :
            PatternExcludes(Chars(excludePatterns[i]), normalizedPath)

\* ------------------------------------------------------------------------
\* The file tree
\* ------------------------------------------------------------------------

\* the paths of the model: /a, /a/b, /a/b/c, /a/b/c/h and /a/bf ("/a/b" is
\* a string prefix of "/a/bf" without being its directory)
pA  == "/a"
pB  == "/a/b"
pC  == "/a/b/c"
pH  == "/a/b/c/h"
pBF == "/a/bf"

Paths == {pA, pB, pC, pH, pBF}

\* the path with the given characters
PathOf(chars) == CHOOSE p \in Paths : Chars(p) = chars

\* p is below the directory d
Below(p, d) == HasPrefix(Chars(p), Chars(d) \o <<Separator>>)

\* for every path, the paths below it
BelowOf == [d \in Paths |-> {p \in Paths : Below(p, d)}]

\* file contents are numbered; Size gives the length in bytes of each
Contents == {1, 2, 3}

Size(c) == CASE c = 1 -> 5
             [] c = 2 -> 10485760
             [] c = 3 -> 10485761
             [] OTHER -> 0

\* sha256 followed by hex.EncodeToString: distinct contents have distinct
\* digests
Sha256Hex(c) == CASE c = 1 -> "6b86b2"
                  [] c = 2 -> "d4735e"
                  [] c = 3 -> "4e0740"
                  [] OTHER -> "e3b0c4"

Digests == {Sha256Hex(c) : c \in Contents}

\* what is at a path: nothing, a regular file with a content, a directory,
\* or a symbolic link (content 0: dangling, otherwise the content of the
\* regular file it points to); readable: the permission to open the file or
\* to list the directory
NoEntry      == [kind |-> "none", content |-> 0, readable |-> FALSE]
DirEntry     == [kind |-> "dir",  content |-> 0, readable |-> TRUE]
FileEntry(c) == [kind |-> "file", content |-> c, readable |-> TRUE]
LinkEntry(c) == [kind |-> "link", content |-> c, readable |-> TRUE]

\* the tree every run starts from
InitialTree ==
    [p \in Paths |-> IF p \in {pA, pB, pC} THEN DirEntry ELSE FileEntry(1)]

\* os.Stat(path) fails with an error for which os.IsNotExist holds, which
\* is ENOENT: nothing is at the path or a symbolic link there points to
\* nothing, and nothing above the path has stopped being a directory (the
\* error is ENOTDIR then, for which os.IsNotExist does not hold)
StatNotExist(tree, path) ==
    /\ \/ tree[path].kind = "none"
       \/ tree[path].kind = "link" /\ tree[path].content = 0
    /\ \A q \in Paths : path \in BelowOf[q] => tree[q].kind \in {"dir", "none"}

\* for every path of the model, the paths directly below it, sorted
ChildrenOf ==
    [d \in Paths |-> SortStrings({q \in Paths : Dir(Chars(q)) = Chars(d)})]

\* the directory a path is in, for the paths below /a
ParentOf == [p \in Paths \ {pA} |-> PathOf(Dir(Chars(p)))]

\* the entries of a directory in the order in which filepath.walk takes
\* them: readDirNames sorts the names, and the paths of one directory sort
\* as their names do
readDirNames(tree, path) ==
    SelectSeq(ChildrenOf[path], LAMBDA q : tree[q].kind # "none")

\* ------------------------------------------------------------------------
\* State
\* ------------------------------------------------------------------------

VARIABLES
    fs,          \* the file tree: Paths -> entry
    disk,        \* the file hashDBFile
    monitorDirs, \* the monitored directories, from the configuration
    exclude,     \* the exclusion patterns, from the configuration
    MaxFileSize, \* the size limit, 0 when no configuration file is read
    hashDB,      \* the store: a function from some paths to digests
    pc,          \* where main is
    events,      \* the alerts of the cycle, in order
    hashed,      \* the paths calculateFileHash was called on by initHashDB or
                 \* by the cycle
    walkErrs,    \* the directories of monitorDirs whose walk returned an error
                 \* (the caller logs it) in initHashDB or in the cycle
    pre,         \* the store, the store file, quiet and saved as they were
                 \* when initHashDB began its walks or when the cycle began
    cycle,       \* 0 until checkFiles is called, 1 during and after the first
                 \* cycle, 2 from the second cycle on
    quiet,       \* whether the tree is as the program saw it last: "init" (no
                 \* change since the walks of initHashDB), "scan" (no change
                 \* since the latest checkFiles), "no"
    saved,       \* the outcome of the latest saveHashDB: "none", "ok", "failed"
    loaded,      \* how initHashDB got the store: "pending"; "loaded" from the
                 \* store file; "fresh": rebuilt, there was no store file;
                 \* "rebuilt": rebuilt, the store file was unusable; "past"
                 \* from the second cycle on
    ops,         \* the number of changes made to the file tree
    ticks,       \* the ticks waiting in the channel ticker.C
    fired        \* the ticks the ticker has fired since the loop of
                 \* startMonitoring last took one (since time.NewTicker,
                 \* before it took any)

vars == <<fs, disk, monitorDirs, exclude, MaxFileSize, hashDB, pc,
          events, hashed, walkErrs, pre, cycle, quiet, saved, loaded, ops,
          ticks, fired>>

\* ------------------------------------------------------------------------
\* calculateFileHash
\* ------------------------------------------------------------------------

\* os.Open follows a symbolic link; reading a directory, a file without
\* read permission or a missing file is an error
calculateFileHash(tree, filePath) ==
    LET e == tree[filePath]
    IN  IF (e.kind = "file" /\ e.readable) \/ (e.kind = "link" /\ e.content # 0)
        THEN [err |-> FALSE, hash |-> Sha256Hex(e.content)]
        ELSE [err |-> TRUE, hash |-> ""]

\* a faulty variant of the assignment m[k] = v: nothing is stored
MapSet_Forget(m, k, v) == m

\* the map m after m[k] = v
MapSet(m, k, v) == [q \in DOMAIN m \cup {k} |-> IF q = k THEN v ELSE m[q]]

\* a faulty variant of delete(m, k): the key stays
MapDelete_Keep(m, k) == m

\* the map m after delete(m, k)
MapDelete(m, k) == [q \in DOMAIN m \ {k} |-> m[q]]

EmptyMap == [q \in {} |-> ""]

\* ------------------------------------------------------------------------
\* The walk functions.  The state threaded through the walks is
\*   [db, ev, changed, hashed, failed]: the store, the alerts so far, the
\*   flag changesDetected, the paths hashed so far and the directories of
\*   monitorDirs whose walk returned an error;
\* a walk function returns it with "nil", "SkipDir" or "err".
\* ------------------------------------------------------------------------

NewFile(path, size, hash) ==
    [kind |-> "NewFile", path |-> path, size |-> size, old |-> "", new |-> hash]

ModifiedFile(path, size, storedHash, currentHash) ==
    [kind |-> "ModifiedFile", path |-> path, size |-> size,
     old |-> storedHash, new |-> currentHash]

DeletedFile(path) ==
    [kind |-> "DeletedFile", path |-> path, size |-> 0, old |-> "", new |-> ""]

\* a faulty variant of the closure of initHashDB: the digest is computed
\* and not stored
initWalkFn_NoStore(tree, path, err, st) ==
    IF err THEN [st |-> st, ret |-> "err"]
    ELSE IF tree[path].kind # "dir"
    THEN [st |-> [st EXCEPT !.hashed = @ \cup {path}], ret |-> "nil"]
    ELSE [st |-> st, ret |-> "nil"]

\* the closure passed to filepath.Walk by initHashDB
initWalkFn(tree, path, err, st) ==
    IF err THEN [st |-> st, ret |-> "err"]
    ELSE IF tree[path].kind # "dir"
    THEN LET h  == calculateFileHash(tree, path)
             s1 == [st EXCEPT !.hashed = @ \cup {path}]
         IN  IF h.err THEN [st |-> s1, ret |-> "nil"]
             ELSE [st |-> [s1 EXCEPT !.db = MapSet(@, path, h.hash)], ret |-> "nil"]
    ELSE [st |-> st, ret |-> "nil"]

\* the size test of checkFiles
ExceedsLimit(size) == MaxFileSize > 0 /\ size > MaxFileSize

\* what the closure of checkFiles returns to filepath.Walk when
\* calculateFileHash fails; the faulty variant returns the error
OnHashError_Abort == "err"

OnHashError == "nil"

\* the closure passed to filepath.Walk by checkFiles
checkWalkFn(tree, dir, path, err, st) ==
    LET info == tree[path]
    IN  IF err THEN [st |-> st, ret |-> "err"]
        ELSE IF path = dir THEN [st |-> st, ret |-> "nil"]
        ELSE IF shouldExclude(path, exclude)
        THEN [st |-> st, ret |-> IF info.kind = "dir" THEN "SkipDir" ELSE "nil"]
        ELSE IF info.kind # "file" THEN [st |-> st, ret |-> "nil"]
        ELSE IF ExceedsLimit(Size(info.content)) THEN [st |-> st, ret |-> "nil"]
        ELSE LET h  == calculateFileHash(tree, path)
                 s1 == [st EXCEPT !.hashed = @ \cup {path}]
             IN  IF h.err THEN [st |-> s1, ret |-> OnHashError]
                 ELSE IF path \notin DOMAIN st.db
                 THEN [st |-> [s1 EXCEPT
                                 !.db = MapSet(@, path, h.hash),
                                 !.ev = Append(@, NewFile(path, Size(info.content), h.hash)),
                                 !.changed = TRUE],
                       ret |-> "nil"]
                 ELSE IF st.db[path] # h.hash
                 THEN [st |-> [s1 EXCEPT
                                 !.db = MapSet(@, path, h.hash),
                                 !.ev = Append(@, ModifiedFile(path, Size(info.content),
                                                               st.db[path], h.hash)),
                                 !.changed = TRUE],
                       ret |-> "nil"]
                 ELSE [st |-> s1, ret |-> "nil"]

\* mode "init": the closure of initHashDB, mode "check": that of checkFiles
walkFn(mode, tree, dir, path, err, st) ==
    IF mode = "init" THEN initWalkFn(tree, path, err, st)
    ELSE checkWalkFn(tree, dir, path, err, st)

\* filepath.walk: the function is called on the entry; a directory that
\* cannot be listed is reported to it as an error; the entries of a
\* directory are walked in the order of their names; SkipDir returned for
\* a directory skips it, anything else that is not nil ends the walk
RECURSIVE walk(_, _, _, _, _), walkNames(_, _, _, _, _, _, _)
walk(mode, tree, dir, path, st) ==
    IF tree[path].kind # "dir"
    THEN walkFn(mode, tree, dir, path, FALSE, st)
    ELSE LET err == ~tree[path].readable
             r1  == walkFn(mode, tree, dir, path, err, st)
         IN  IF err \/ r1.ret # "nil" THEN r1
             ELSE walkNames(mode, tree, dir, path, readDirNames(tree, path), 1, r1.st)

walkNames(mode, tree, dir, path, names, i, st) ==
    IF i > Len(names) THEN [st |-> st, ret |-> "nil"]
    ELSE LET filename == names[i]
             r == walk(mode, tree, dir, filename, st)
         IN  IF r.ret # "nil" /\ ~(tree[filename].kind = "dir" /\ r.ret = "SkipDir")
             THEN r
             ELSE walkNames(mode, tree, dir, path, names, i + 1, r.st)

\* filepath.Walk(root, fn) and the test of its result by the caller: a
\* root that os.Lstat does not find is reported to the function as an
\* error; SkipDir as the result is no error; an error is logged
Walk(mode, tree, root, st) ==
    LET r == IF tree[root].kind = "none"
             THEN walkFn(mode, tree, root, root, TRUE, st)
             ELSE walk(mode, tree, root, root, st)
    IN  IF r.ret = "err" THEN [r.st EXCEPT !.failed = @ \cup {root}] ELSE r.st

\* a faulty variant of the loop over monitorDirs: it ends with the first
\* directory whose walk returns an error
RECURSIVE WalkDirs_Stop(_, _, _, _, _)
WalkDirs_Stop(mode, tree, dirs, i, st) ==
    IF i > Len(dirs) \/ st.failed # {} THEN st
    ELSE WalkDirs_Stop(mode, tree, dirs, i + 1, Walk(mode, tree, dirs[i], st))

\* the loop over monitorDirs
RECURSIVE WalkDirs(_, _, _, _, _)
WalkDirs(mode, tree, dirs, i, st) ==
    IF i > Len(dirs) THEN st
    ELSE WalkDirs(mode, tree, dirs, i + 1, Walk(mode, tree, dirs[i], st))

\* the state a handler starts its walks with
WalkStart(db) ==
    [db |-> db, ev |-> <<>>, changed |-> FALSE, hashed |-> {}, failed |-> {}]

\* the deletion sweep of checkFiles.  Go ranges over the map in an order it
\* does not specify: order is one enumeration of the keys
RECURSIVE Sweep(_, _, _, _)
Sweep(tree, order, i, st) ==
    IF i > Len(order) THEN st
    ELSE LET path == order[i]
         IN  IF StatNotExist(tree, path) /\ ~shouldExclude(path, exclude)
             THEN Sweep(tree, order, i + 1,
                        [st EXCEPT !.db = MapDelete(@, path),
                                   !.ev = Append(@, DeletedFile(path)),
                                   !.changed = TRUE])
             ELSE Sweep(tree, order, i + 1, st)

\* the enumerations of a finite set
Orders(S) ==
    {f \in [1..Cardinality(S) -> S] : \A i, j \in 1..Cardinality(S) : f[i] = f[j] => i = j}

\* the first loop of checkFiles: the walks of the monitored directories
WalkResult(tree, db) == WalkDirs("check", tree, monitorDirs, 1, WalkStart(db))

\* checkFiles up to the test of changesDetected: the walks, then the sweep
ScanResult(tree, db, order) == Sweep(tree, order, 1, WalkResult(tree, db))

\* ------------------------------------------------------------------------
\* The store file
\* ------------------------------------------------------------------------

\* A file is absent, or holds a text: wellformed says whether the text is
\* one JSON object, pairs are its members in order.  A member's value is a
\* JSON string or something else (a number, say).
\* The key of a member is held as the JSON text between its quotes, a
\* sequence of characters and escapes.
NoFile        == [exists |-> FALSE, wellformed |-> FALSE, pairs |-> <<>>]
JsonString(s) == [type |-> "string", s |-> s]
JsonNumber    == [type |-> "number", s |-> ""]

\* paths that are not in the tree of the model but may be keys of a store:
\* a name with a character that encoding/json escapes, a name that is not
\* valid UTF-8, and a name with the rune U+FFFD
OddPaths == {"/a/<", "/a/xFF", "/a/uFFFD"}

\* the string with the given characters
StringOf(chars) == CHOOSE s \in Paths \cup OddPaths : Chars(s) = chars

\* encoding/json's appendString with escapeHTML, as json.MarshalIndent
\* applies it to a key: "<" is written as the escape \u003c, a byte that is
\* not valid UTF-8 is written as the escape \ufffd, other characters are
\* copied
appendString(s) ==
    LET c == Chars(s)
    IN  [i \in 1..Len(c) |->
           CASE c[i] = "<"   -> "\\u003c"
             [] c[i] = "xFF" -> "\\ufffd"
             [] OTHER        -> c[i]]

\* encoding/json's unquote, as json.Unmarshal applies it to a key: an
\* escape gives its rune, a byte that is not valid UTF-8 gives U+FFFD
unquote(text) ==
    StringOf([i \in 1..Len(text) |->
                CASE text[i] = "\\u003c" -> "<"
                  [] text[i] = "\\ufffd" -> "uFFFD"
                  [] text[i] = "xFF"      -> "uFFFD"
                  [] OTHER                -> text[i]])

\* what os.WriteFile leaves between O_TRUNC and the end of the write, or
\* after a write that failed: no complete JSON text
TornFile == [exists |-> TRUE, wellformed |-> FALSE, pairs |-> <<>>]

\* a faulty variant of the encoding: the member with the last key is lost
MarshalIndent_DropLast(db) ==
    LET keys == SortStrings(DOMAIN db)
    IN  [exists |-> TRUE, wellformed |-> TRUE,
         pairs |-> [i \in 1..(Len(keys) - 1) |->
                      <<appendString(keys[i]), JsonString(db[keys[i]])>>]]

\* json.MarshalIndent of a map[string]string: the members sorted by key,
\* each key quoted by appendString.  The values of the store are
\* hexadecimal digests, which appendString copies.
MarshalIndent(db) ==
    LET keys == SortStrings(DOMAIN db)
    IN  [exists |-> TRUE, wellformed |-> TRUE,
         pairs |-> [i \in 1..Len(keys) |->
                      <<appendString(keys[i]), JsonString(db[keys[i]])>>]]

\* json.Unmarshal into the map db: a text that is not valid JSON is rejected
\* before anything is stored; otherwise every member with a string value is
\* stored under its unquoted key (a key that occurs again overwrites), and
\* a member of another type is skipped and makes the call return an
\* UnmarshalTypeError
RECURSIVE UnmarshalPairs(_, _, _)
UnmarshalPairs(pairs, i, r) ==
    IF i > Len(pairs) THEN r
    ELSE LET k == unquote(pairs[i][1])
             v == pairs[i][2]
         IN  IF v.type = "string"
             THEN UnmarshalPairs(pairs, i + 1, [r EXCEPT !.db = MapSet(@, k, v.s)])
             ELSE UnmarshalPairs(pairs, i + 1, [r EXCEPT !.err = TRUE])

Unmarshal(file, db) ==
    IF ~file.wellformed THEN [err |-> TRUE, db |-> db]
    ELSE UnmarshalPairs(file.pairs, 1, [err |-> FALSE, db |-> db])

\* ------------------------------------------------------------------------
\* Configurations and initial states
\* ------------------------------------------------------------------------

\* the value loadConfigFromFile gives MaxFileSize
ConfigMaxFileSize == 10485760

\* the configurations of the model.  The first three are read from a
\* configuration file: root /a with the directory rule "/a/b/"; the roots
\* /a/b, /a, /a/b (overlapping and repeated) without rules; root /a with
\* the wildcard rule "*c" and the exact rule "/a/bf".  The last one is a
\* run without configuration file (-config ""): the root /a/b is given on
\* the command line, there are no rules and MaxFileSize stays 0.
Configs ==
    { [dirs |-> <<pA>>, exclude |-> <<"/a/b/">>, limit |-> ConfigMaxFileSize],
      [dirs |-> <<pB, pA, pB>>, exclude |-> <<>>, limit |-> ConfigMaxFileSize],
      [dirs |-> <<pA>>, exclude |-> <<"*c", pBF>>, limit |-> ConfigMaxFileSize],
      [dirs |-> <<pB>>, exclude |-> <<>>, limit |-> 0] }

\* the store file a run may find: none; an unparsable text; the snapshot
\* of the initial tree; a snapshot that differs from the tree; a JSON
\* object one of whose values is not a string
InitDisks ==
    { NoFile,
      TornFile,
      MarshalIndent([p \in {pH, pBF} |-> Sha256Hex(1)]),
      MarshalIndent([p \in {pBF} |-> Sha256Hex(2)]),
      [exists |-> TRUE, wellformed |-> TRUE,
       pairs |-> << <<appendString(pBF), JsonNumber>>,
                    <<appendString(pH), JsonString(Sha256Hex(2))>> >>] }

Init ==
    /\ fs = InitialTree
    /\ disk \in InitDisks
    /\ \E c \in Configs :
          /\ monitorDirs = c.dirs
          /\ exclude = c.exclude
          /\ MaxFileSize = c.limit
    /\ hashDB = EmptyMap
    /\ pc = "initHashDB"
    /\ events = <<>>
    /\ hashed = {}
    /\ walkErrs = {}
    /\ pre = [db |-> EmptyMap, disk |-> NoFile, quiet |-> "no", saved |-> "none"]
    /\ cycle = 0
    /\ quiet = "no"
    /\ saved = "none"
    /\ loaded = "pending"
    /\ ops = 0
    /\ ticks = 0
    /\ fired = 0

config == <<monitorDirs, exclude, MaxFileSize>>

\* the ticker of startMonitoring
ticker == <<ticks, fired>>

\* the records of a cycle before the cycle has run
NoPre == [db |-> EmptyMap, disk |-> NoFile, quiet |-> "no", saved |-> "none"]

\* ------------------------------------------------------------------------
\* The program
\* ------------------------------------------------------------------------

\* initHashDB up to its call of saveHashDB.  readOk: whether os.ReadFile
\* succeeds on a store file that exists.
initHashDB ==
    /\ pc = "initHashDB"
    /\ \E readOk \in BOOLEAN :
          /\ ~disk.exists => readOk
          /\ LET u == Unmarshal(disk, hashDB)
             IN  IF disk.exists /\ readOk /\ ~u.err
                 THEN /\ hashDB' = u.db
                      /\ loaded' = "loaded"
                      /\ pc' = "checkFiles"
                      /\ UNCHANGED <<hashed, walkErrs, pre, quiet>>
                 ELSE LET db0 == IF disk.exists /\ readOk THEN u.db ELSE hashDB
                          st  == WalkDirs("init", fs, monitorDirs, 1, WalkStart(db0))
                      IN  /\ hashDB' = st.db
                          /\ hashed' = st.hashed
                          /\ walkErrs' = st.failed
                          /\ pre' = [db |-> db0, disk |-> disk, quiet |-> quiet,
                                     saved |-> saved]
                          /\ quiet' = "init"
                          /\ loaded' = IF disk.exists THEN "rebuilt" ELSE "fresh"
                          /\ pc' = "init_save"
    /\ UNCHANGED <<fs, disk, config, ticker, events, cycle, saved, ops>>

\* a faulty variant: the caller in checkFiles ends the program
AfterSave_Fatal(at) == IF at \in {"init_save", "init_write"} THEN "checkFiles" ELSE "exited"

\* where saveHashDB returns to
AfterSave(at) == IF at \in {"init_save", "init_write"} THEN "checkFiles" ELSE "wait"

\* saveHashDB, first half: os.MkdirAll, json.MarshalIndent and the opening
\* of the file by os.WriteFile with O_TRUNC.  A failure returns the error
\* and leaves the file as it was.
saveHashDB_open ==
    /\ pc \in {"init_save", "scan_save"}
    /\ \E ok \in BOOLEAN :
          IF ok
          THEN /\ disk' = TornFile
               /\ pc' = IF pc = "init_save" THEN "init_write" ELSE "scan_write"
               /\ saved' = saved
          ELSE /\ disk' = disk
               /\ pc' = AfterSave(pc)
               /\ saved' = "failed"
    /\ UNCHANGED <<fs, config, ticker, hashDB, events, hashed, walkErrs, pre, cycle,
                   quiet, loaded, ops>>

\* saveHashDB, second half: the write of the data and the return
saveHashDB_write ==
    /\ pc \in {"init_write", "scan_write"}
    /\ \E ok \in BOOLEAN :
          IF ok
          THEN /\ disk' = MarshalIndent(hashDB)
               /\ saved' = "ok"
          ELSE /\ disk' = TornFile
               /\ saved' = "failed"
    /\ pc' = AfterSave(pc)
    /\ UNCHANGED <<fs, config, ticker, hashDB, events, hashed, walkErrs, pre, cycle,
                   quiet, loaded, ops>>

\* checkFiles up to its call of saveHashDB
checkFiles ==
    /\ pc = "checkFiles"
    /\ \E order \in Orders(DOMAIN WalkResult(fs, hashDB).db) :
          LET st == ScanResult(fs, hashDB, order)
          IN  /\ hashDB' = st.db
              /\ events' = st.ev
              /\ hashed' = st.hashed
              /\ walkErrs' = st.failed
              /\ pc' = IF st.changed THEN "scan_save" ELSE "wait"
    /\ pre' = [db |-> hashDB, disk |-> disk, quiet |-> quiet, saved |-> saved]
    /\ cycle' = IF cycle = 0 THEN 1 ELSE cycle
    /\ quiet' = "scan"
    /\ saved' = "none"
    /\ UNCHANGED <<fs, disk, config, ticker, loaded, ops>>

\* for range ticker.C: a tick arrives and the loop of startMonitoring takes
\* it.  The records of the cycle that ended are dropped.
startMonitoring_tick ==
    /\ pc = "wait"
    /\ pc' = "checkFiles"
    /\ events' = <<>>
    /\ hashed' = {}
    /\ walkErrs' = {}
    /\ pre' = NoPre
    /\ cycle' = 2
    /\ loaded' = "past"
    /\ UNCHANGED <<fs, disk, config, ticker, hashDB, quiet, saved, ops>>

\* the process is ended from outside (SIGINT, SIGTERM, SIGKILL): the
\* program installs no signal handler, so it ends where it is, and no
\* deferred call runs.  hashDB keeps what the memory held at that moment;
\* the records of the run are gone.
Kill ==
    /\ pc # "exited"
    /\ pc' = "exited"
    /\ events' = <<>>
    /\ hashed' = {}
    /\ walkErrs' = {}
    /\ pre' = NoPre
    /\ quiet' = "no"
    /\ cycle' = 2
    /\ saved' = "none"
    /\ loaded' = "past"
    /\ UNCHANGED <<fs, disk, config, ticker, hashDB, ops>>

\* ------------------------------------------------------------------------
\* The environment: changes of the file tree
\* ------------------------------------------------------------------------

ParentIsDir(tree, p) == IF p = pA THEN TRUE ELSE tree[ParentOf[p]].kind = "dir"

\* The program reads the tree in initHashDB and in checkFiles only, each
\* one step of the model; a change commutes with every other step, so it
\* is made right before the step that sees it.
EnvStep(tree) ==
    /\ ops < MaxFsOps
    /\ pc \in {"initHashDB", "checkFiles"}
    /\ fs' = tree
    /\ ops' = ops + 1
    /\ quiet' = "no"
    /\ UNCHANGED <<disk, config, ticker, hashDB, pc, events, hashed, walkErrs, pre,
                   cycle, saved, loaded>>

\* a regular file is created or rewritten; where the directory /a/b/c was,
\* a small file may be created
FsWriteFile ==
    \E p \in {pC, pH, pBF}, c \in Contents :
       /\ p = pC => c = 1
       /\ ParentIsDir(fs, p)
       /\ fs[p].kind \in {"none", "file"}
       /\ fs[p].content # c
       /\ EnvStep([fs EXCEPT ![p] = IF fs[p].kind = "file"
                                    THEN [@ EXCEPT !.content = c]
                                    ELSE FileEntry(c)])

\* a file, a link or a directory with all it holds is removed
FsRemoveAll ==
    \E p \in Paths :
       /\ fs[p].kind # "none"
       /\ EnvStep([q \in Paths |->
                     IF q = p \/ q \in BelowOf[p] THEN NoEntry ELSE fs[q]])

\* the read permission of a file or a directory is taken away or given back
FsChmod ==
    \E p \in {pA, pB, pH, pBF} :
       /\ fs[p].kind \in {"file", "dir"}
       /\ EnvStep([fs EXCEPT ![p].readable = ~@])

\* a symbolic link is put where a file is or could be
FsSymlink ==
    \E p \in {pBF}, c \in {0, 1} :
       /\ ParentIsDir(fs, p)
       /\ fs[p].kind \in {"none", "file"}
       /\ EnvStep([fs EXCEPT ![p] = LinkEntry(c)])

\* a directory is made where a file is or could be
FsMkdir ==
    \E p \in {pBF} :
       /\ ParentIsDir(fs, p)
       /\ fs[p].kind \in {"none", "file"}
       /\ EnvStep([fs EXCEPT ![p] = DirEntry])

Next ==
    \/ initHashDB
    \/ saveHashDB_open
    \/ saveHashDB_write
    \/ checkFiles
    \/ startMonitoring_tick
    \/ Kill
    \/ FsWriteFile
    \/ FsRemoveAll
    \/ FsChmod
    \/ FsSymlink
    \/ FsMkdir

Spec == Init /\ [][Next]_vars

\* ------------------------------------------------------------------------
\* Save and load: the store file written by one process and read by the next
\* ------------------------------------------------------------------------

\* the stores saved: every map from some of these paths to digests
RoundTripKeys == {pBF} \cup OddPaths

RoundTripStores ==
    UNION {[K -> Digests] : K \in SUBSET RoundTripKeys}

\* a process is about to call saveHashDB with some store, no store file
\* exists yet
InitRoundTrip ==
    /\ fs = InitialTree
    /\ disk = NoFile
    /\ monitorDirs = <<pA>>
    /\ exclude = <<>>
    /\ MaxFileSize = ConfigMaxFileSize
    /\ hashDB \in RoundTripStores
    /\ pc = "scan_save"
    /\ events = <<>>
    /\ hashed = {}
    /\ walkErrs = {}
    /\ pre = NoPre
    /\ cycle = 2
    /\ quiet = "no"
    /\ saved = "none"
    /\ loaded = "past"
    /\ ops = 0
    /\ ticks = 0
    /\ fired = 0

\* the process has ended after the cycle and the program is started again:
\* main runs up to its call of initHashDB, hashDB is the empty map of its
\* declaration.  pre.db keeps the store the ended process held.
Restart ==
    /\ pc = "wait"
    /\ pc' = "initHashDB"
    /\ pre' = [pre EXCEPT !.db = hashDB]
    /\ hashDB' = EmptyMap
    /\ loaded' = "pending"
    /\ cycle' = 0
    /\ UNCHANGED <<fs, disk, config, ticker, events, hashed, walkErrs, quiet, saved, ops>>

NextRoundTrip ==
    \/ saveHashDB_open
    \/ saveHashDB_write
    \/ Restart
    \/ initHashDB

SpecRoundTrip == InitRoundTrip /\ [][NextRoundTrip]_vars

\* ------------------------------------------------------------------------
\* The ticker: time.NewTicker and the loop for range ticker.C
\* ------------------------------------------------------------------------

\* the ticker exists from the start of startMonitoring on
TickerRunning == pc \in {"checkFiles", "scan_save", "scan_write", "wait"}

\* the channel of a ticker holds one tick; a tick that finds it full is
\* dropped
Offer_Queue(n) == n + 1

Offer(n) == IF n = 0 THEN 1 ELSE n

\* the ticker fires, whatever the program is doing
Tick ==
    /\ TickerRunning
    /\ fired < MaxTicks
    /\ ticks' = Offer(ticks)
    /\ fired' = fired + 1
    /\ UNCHANGED <<fs, disk, config, hashDB, pc, events, hashed, walkErrs, pre,
                   cycle, quiet, saved, loaded, ops>>

\* the one goroutine of the program is at the head of the loop
\* for range ticker.C, the call of checkFiles before it has returned
LoopIdle_Any == pc \in {"wait", "scan_save", "scan_write"}

LoopIdle == pc = "wait"

\* for range ticker.C takes a tick out of the channel and calls checkFiles.
\* The records of the cycle that ended are dropped.
startMonitoring_recv ==
    /\ LoopIdle
    /\ ticks > 0
    /\ ticks' = ticks - 1
    /\ fired' = 0
    /\ pc' = "checkFiles"
    /\ events' = <<>>
    /\ hashed' = {}
    /\ walkErrs' = {}
    /\ pre' = NoPre
    /\ cycle' = 2
    /\ loaded' = "past"
    /\ UNCHANGED <<fs, disk, config, hashDB, quiet, saved, ops>>

NextTicker ==
    \/ initHashDB
    \/ saveHashDB_open
    \/ saveHashDB_write
    \/ checkFiles
    \/ Tick
    \/ startMonitoring_recv
    \/ FsWriteFile

SpecTicker == Init /\ [][NextTicker]_vars

\* ------------------------------------------------------------------------
\* Well-formedness of the model
\* ------------------------------------------------------------------------

TypeOK ==
    /\ DOMAIN fs = Paths
    /\ \A p \in Paths : fs[p].kind # "none" => ParentIsDir(fs, p)
    /\ DOMAIN hashDB \subseteq Paths
    /\ \A p \in DOMAIN hashDB : hashDB[p] \in Digests
    /\ pc \in {"initHashDB", "init_save", "init_write", "checkFiles",
               "scan_save", "scan_write", "wait", "exited"}
    /\ cycle \in 0..2
    /\ ops \in 0..MaxFsOps
    /\ ticks \in 0..1
    /\ fired \in 0..MaxTicks

\* ------------------------------------------------------------------------
\* Vocabulary of the properties
\* ------------------------------------------------------------------------

\* a cycle has run on the tree fs, from the store pre.db to the store
\* hashDB, with the alerts events; its save may still be under way
PostScan == pc \in {"scan_save", "scan_write", "wait"}

\* initHashDB has rebuilt the store from the tree fs and not yet saved it
PostInit == pc \in {"init_save", "init_write"}

Roots == {monitorDirs[i] : i \in 1..Len(monitorDirs)}

\* the alerts of the cycle about the path p
EventsAt(p) == {i \in DOMAIN events : events[i].path = p}

EventsOfKind(kind, p) == {i \in EventsAt(p) : events[i].kind = kind}

\* p is below the monitored directory root, and neither p nor a directory
\* between root and p matches an exclusion rule
InScopeVia(p, root) ==
    /\ p \in BelowOf[root]
    /\ ~shouldExclude(p, exclude)
    /\ \A q \in BelowOf[root] : p \in BelowOf[q] => ~shouldExclude(q, exclude)

\* at p there is a regular file that can be read and is within the limit
Monitorable(p) ==
    /\ fs[p].kind = "file"
    /\ fs[p].readable
    /\ MaxFileSize > 0 => Size(fs[p].content) <= MaxFileSize

\* every directory from root down to p exists and can be listed
Listable(p, root) ==
    \A q \in Paths : (q = root \/ q \in BelowOf[root]) /\ p \in BelowOf[q]
                        => fs[q].kind = "dir" /\ fs[q].readable

\* the digest of the file at p
Fingerprint(p) == Sha256Hex(fs[p].content)

\* ------------------------------------------------------------------------
\* C1
\* ------------------------------------------------------------------------

\* C1: a cycle that follows a cycle with no change of the file tree in
\* between (the rules and the limit never change in a run) emits no alert
\* and leaves the store as it was.
C1_Idempotence ==
    (PostScan /\ pre.quiet = "scan") => (events = <<>> /\ hashDB = pre.db)

\* a second cycle has run on an unchanged tree, with a store that is not
\* empty and a file that the cycle hashed
C1_Witness ==
    /\ PostScan
    /\ pre.quiet = "scan"
    /\ hashDB # EmptyMap
    /\ hashed # {}

\* ------------------------------------------------------------------------
\* C2
\* ------------------------------------------------------------------------

\* what the cycle owes a new file at p
NewFileReported(p) ==
    /\ Cardinality(EventsAt(p)) = 1
    /\ \A i \in EventsAt(p) :
          events[i].kind = "NewFile" /\ events[i].new = Fingerprint(p)
    /\ p \in DOMAIN hashDB
    /\ hashDB[p] = Fingerprint(p)

\* C2 as stated: every regular, readable, non-excluded file within the size
\* limit under a monitored root whose path is not in the store when the
\* cycle starts gets exactly one NewFile alert with its fingerprint, and the
\* store maps the path to that fingerprint after the cycle.  (Stated for
\* the files whose directories can all be listed.)
C2_NewFileDetection ==
    PostScan =>
       \A p \in Paths :
          (/\ Monitorable(p)
           /\ \E root \in Roots : InScopeVia(p, root) /\ Listable(p, root)
           /\ p \notin DOMAIN pre.db)
          => NewFileReported(p)

\* C2, what holds: the same, for a file that is in scope below a monitored
\* directory whose walk returns no error in this cycle.
C2_NewFileDetection_WalkedRoots ==
    PostScan =>
       \A p \in Paths :
          (/\ Monitorable(p)
           /\ \E root \in Roots : InScopeVia(p, root) /\ root \notin walkErrs
           /\ p \notin DOMAIN pre.db)
          => NewFileReported(p)

\* ------------------------------------------------------------------------
\* C3
\* ------------------------------------------------------------------------

\* what the cycle owes a file at p whose digest is not the stored one
ModificationReported(p) ==
    /\ Cardinality(EventsAt(p)) = 1
    /\ \A i \in EventsAt(p) :
          /\ events[i].kind = "ModifiedFile"
          /\ events[i].old = pre.db[p]
          /\ events[i].new = Fingerprint(p)
    /\ p \in DOMAIN hashDB
    /\ hashDB[p] = Fingerprint(p)

\* C3 as stated: for every in-scope path (a regular, readable, non-excluded
\* file within the size limit under a monitored root) that the store maps
\* to H1 when the cycle starts and whose content has the digest H2 # H1,
\* the cycle emits exactly one ModifiedFile alert with old = H1, new = H2
\* and the store maps the path to H2 afterwards; a later cycle with no
\* further change emits nothing for the path.  (Stated for the files whose
\* directories can all be listed.)
C3_ModificationDetection ==
    PostScan =>
       \A p \in Paths :
          (/\ Monitorable(p)
           /\ \E root \in Roots : InScopeVia(p, root) /\ Listable(p, root)
           /\ p \in DOMAIN pre.db)
          => /\ pre.db[p] # Fingerprint(p) => ModificationReported(p)
             /\ pre.quiet = "scan" => EventsAt(p) = {}

\* C3, what holds: the same, for a path that is in scope below a monitored
\* directory whose walk returns no error in this cycle.
C3_ModificationDetection_WalkedRoots ==
    PostScan =>
       \A p \in Paths :
          (/\ Monitorable(p)
           /\ \E root \in Roots : InScopeVia(p, root) /\ root \notin walkErrs
           /\ p \in DOMAIN pre.db)
          => /\ pre.db[p] # Fingerprint(p) => ModificationReported(p)
             /\ pre.quiet = "scan" => EventsAt(p) = {}

\* ------------------------------------------------------------------------
\* C4
\* ------------------------------------------------------------------------

\* what the sweep owes a path p of the store that is gone
SweptAsDeleted(p) ==
    IF shouldExclude(p, exclude)
    THEN /\ EventsAt(p) = {}
         /\ p \in DOMAIN hashDB
         /\ hashDB[p] = pre.db[p]
    ELSE /\ Cardinality(EventsAt(p)) = 1
         /\ \A i \in EventsAt(p) : events[i].kind = "DeletedFile"
         /\ p \notin DOMAIN hashDB

\* C4: for every path of the store that is no longer on disk when the
\* sweep runs (nothing is at the path): if it matches no rule, the cycle
\* emits exactly one DeletedFile alert for it and removes it from the
\* store; if it matches a rule, the cycle emits no alert for it and it
\* stays in the store with its digest (in this cycle and, being an
\* invariant of all cycles, in every later one while it stays absent and
\* excluded).
C4_DeletionDetection ==
    PostScan =>
       \A p \in DOMAIN pre.db : fs[p].kind = "none" => SweptAsDeleted(p)

\* C4, what holds: the same for every path of the store for which os.Stat
\* reports that it does not exist (ENOENT).
C4_DeletionDetection_Stat ==
    PostScan =>
       \A p \in DOMAIN pre.db : StatNotExist(fs, p) => SweptAsDeleted(p)

\* ------------------------------------------------------------------------
\* C5
\* ------------------------------------------------------------------------

\* C5: with the monitored root /a and the rule "/a/b/", on a run that found
\* no store file, no path below /a/b is a key of the store and no alert is
\* about such a path.
C5_DirectoryExclusion ==
    (monitorDirs = <<pA>> /\ exclude = <<"/a/b/">> /\ loaded = "fresh")
    => /\ DOMAIN hashDB \cap BelowOf[pB] = {}
       /\ \A i \in DOMAIN events : events[i].path \notin BelowOf[pB]

\* ------------------------------------------------------------------------
\* C6
\* ------------------------------------------------------------------------

\* at p there is a regular file larger than the limit
Oversized(p) == fs[p].kind = "file" /\ Size(fs[p].content) > MaxFileSize

\* C6: with a limit L > 0, after the baseline walk of initHashDB and after
\* every cycle, a file larger than L has not been hashed by that walk or
\* cycle, and its path has not been added to the store nor its entry
\* changed.
C6_SizeLimit ==
    ((PostInit \/ PostScan) /\ MaxFileSize > 0) =>
       \A p \in Paths :
          Oversized(p) =>
             /\ p \notin hashed
             /\ p \in DOMAIN hashDB => p \in DOMAIN pre.db /\ hashDB[p] = pre.db[p]

\* ------------------------------------------------------------------------
\* C7
\* ------------------------------------------------------------------------

\* the run found no store file, or one it could not read or decode
NoBaselineFound == loaded \in {"fresh", "rebuilt"}

Persisted(file, db) == Unmarshal(file, EmptyMap) = [err |-> FALSE, db |-> db]

\* C8: when the process is told to end while startMonitoring runs (the
\* deferred saveHashDB of main is registered) and no save has failed, a
\* cycle under way (its save included) runs to its end first, and the
\* process exits with the store written to the store file.
C8_GracefulShutdown ==
    [][(pc \in {"checkFiles", "scan_save", "scan_write", "wait"}
        /\ saved # "failed" /\ pc' = "exited")
       => /\ pc \notin {"scan_save", "scan_write"}
          /\ Persisted(disk', hashDB')]_vars

\* ------------------------------------------------------------------------
\* C9
\* ------------------------------------------------------------------------

\* C9: when the process is ended during saveHashDB, the store file is the
\* file as it was before the save or the complete encoding of the store.
C9_AtomicPersistence ==
    [][(pc \in {"init_save", "init_write", "scan_save", "scan_write"} /\ pc' = "exited")
       => disk' \in {pre.disk, MarshalIndent(hashDB)}]_vars

\* ------------------------------------------------------------------------
\* C10
\* ------------------------------------------------------------------------

SavedAndLoaded == pc = "checkFiles" /\ loaded = "loaded" /\ saved = "ok"

\* C11: for every store, after a successful saveHashDB and the load of the
\* written file at the next start, the store is the store that was saved.
C11_RoundTrip ==
    SavedAndLoaded => hashDB = pre.db

\* every path of the store db is valid UTF-8
ValidUtf8Keys(db) == \A k \in DOMAIN db : ~Contains(Chars(k), "xFF")

\* C11, what holds: the same for every store whose paths are valid UTF-8.
C11_RoundTrip_Utf8 ==
    (SavedAndLoaded /\ ValidUtf8Keys(pre.db)) => hashDB = pre.db

\* ------------------------------------------------------------------------
\* C12: single active scan.  A call of checkFiles begins only from the head
\* of the loop of startMonitoring (or, the first one, from the end of
\* initHashDB), never while another call is between its walk and the end
\* of its save, however many ticks fire meanwhile; and hashDB is changed by
\* the steps of initHashDB and checkFiles only.
\* ------------------------------------------------------------------------

ScanInFlight == pc \in {"scan_save", "scan_write"}

C12_Step ==
    /\ (pc' = "checkFiles" /\ pc # "checkFiles") =>
           (pc = "wait" \/ (cycle = 0 /\ pc \in {"initHashDB", "init_save", "init_write"}))
    /\ ScanInFlight => (hashDB' = hashDB /\ events' = events)
    /\ hashDB' # hashDB => pc \in {"initHashDB", "checkFiles"}

C12_SingleActiveScan == [][C12_Step]_vars

\* ticks have fired while a call of checkFiles was saving
C12_Witness == ScanInFlight /\ fired >= 2 /\ cycle = 2

\* ------------------------------------------------------------------------
\* C19: tick coalescing.  The first call of checkFiles takes no tick.
\* However many ticks fire while a call of checkFiles runs, one tick at
\* most waits in the channel, and one waits if any has fired; a later call
\* of checkFiles begins only by taking the one waiting tick, which leaves
\* the channel empty: one further call for each tick taken.
\* ------------------------------------------------------------------------

C19_Pending == ticks = IF fired >= 1 THEN 1 ELSE 0

C19_Step ==
    /\ (cycle = 0 /\ cycle' = 1) => (ticks' = ticks /\ fired' = fired)
    /\ (pc' = "checkFiles" /\ pc # "checkFiles" /\ cycle' = 2) =>
           (pc = "wait" /\ ticks = 1 /\ ticks' = 0 /\ fired' = 0)

C19_TickCoalescing == []C19_Pending /\ [][C19_Step]_vars

\* a call of checkFiles after the first has returned, three ticks have
\* fired since it began, and one waits
C19_Witness == pc = "wait" /\ cycle = 2 /\ fired = MaxTicks /\ ticks = 1

\* ------------------------------------------------------------------------
\* C13
\* ------------------------------------------------------------------------

\* the walk of checkFiles prunes the directory d: d itself matches a rule,
\* or d is the directory of a rule that ends in "/" (every entry of d
\* matches the rule)
Pruned(d) ==
    \/ shouldExclude(d, exclude)
    \/ \E i \in 1..Len(exclude) : exclude[i] = d \o "/"

\* C13: when a directory that the walk prunes is gone from the tree, the
\* cycle emits no DeletedFile alert for any path of the store below it.
C13_ExcludedSubtreeRemoval ==
    PostScan =>
       \A d \in Paths : \A p \in DOMAIN pre.db \cap BelowOf[d] :
          (Pruned(d) /\ fs[d].kind = "none")
             => EventsOfKind("DeletedFile", p) = {}

\* C13, what holds: the same for the directories pruned by a rule that ends
\* in "/", and for every path of the store that itself matches a rule.
C13_ExcludedSubtreeRemoval_Prefix ==
    PostScan =>
       \A p \in DOMAIN pre.db :
          shouldExclude(p, exclude) => EventsOfKind("DeletedFile", p) = {}

\* ------------------------------------------------------------------------
\* C14
\* ------------------------------------------------------------------------

\* p is in scope below a monitored directory whose walk returned no error
\* in this cycle
Walked(p) == \E root \in Roots : InScopeVia(p, root) /\ root \notin walkErrs

\* at p there is a regular file with the digest the store had for p when
\* the cycle started
AsBaselined(p) == fs[p].kind = "file" /\ Fingerprint(p) = pre.db[p]

ChangeReported(p) ==
    EventsOfKind("ModifiedFile", p) \cup EventsOfKind("DeletedFile", p) # {}

\* C14: for every path of the store that matches no rule (and is in scope
\* below a monitored directory that was walked without error): when there
\* is no regular file with the stored digest at the path, and what is
\* there, if it is a file, can be read and is within the limit, the cycle
\* emits a ModifiedFile or a DeletedFile alert for the path.
C14_NoFalseNegatives ==
    PostScan =>
       \A p \in DOMAIN pre.db :
          (/\ Walked(p)
           /\ ~AsBaselined(p)
           /\ fs[p].kind = "file" => Monitorable(p))
          => ChangeReported(p)

\* C14, what holds: the same when a regular file is at the path, or when
\* os.Stat reports that the path does not exist.
C14_NoFalseNegatives_FileOrGone ==
    PostScan =>
       \A p \in DOMAIN pre.db :
          (/\ Walked(p)
           /\ ~AsBaselined(p)
           /\ Monitorable(p) \/ StatNotExist(fs, p))
          => ChangeReported(p)

\* ------------------------------------------------------------------------
\* C15
\* ------------------------------------------------------------------------

\* the cycle called calculateFileHash on p and the call failed
HashFailed(p) == p \in hashed /\ calculateFileHash(fs, p).err

\* every monitored directory exists and every directory can be listed
AllListable ==
    /\ \A root \in Roots : fs[root].kind = "dir"
    /\ \A q \in Paths : fs[q].kind = "dir" => fs[q].readable

Reached(d, root) ==
    \/ d = root
    \/ fs[d].kind # "none" /\ InScopeVia(d, root) /\ Listable(d, root)

\* a walk of the cycle comes to d and cannot traverse it: d is a monitored
\* directory that is missing, or a directory that cannot be listed
Untraversable(d) ==
    /\ \E root \in Roots : Reached(d, root)
    /\ \/ d \in Roots /\ fs[d].kind = "none"
       \/ fs[d].kind = "dir" /\ ~fs[d].readable

\* root exists and every directory at or below it can be listed
SubtreeListable(root) ==
    /\ fs[root].kind = "dir"
    /\ \A q \in {root} \cup BelowOf[root] : fs[q].kind = "dir" => fs[q].readable

\* the error is logged, the walks of the other monitored directories are
\* made in full, and the sweep runs
ErrorIsolated(d) ==
    /\ \A root \in Roots : Reached(d, root) => root \in walkErrs
    /\ \A root \in Roots : SubtreeListable(root) =>
          \A q \in Paths : (Monitorable(q) /\ InScopeVia(q, root)) => q \in hashed
    /\ \A q \in DOMAIN pre.db : StatNotExist(fs, q) => SweptAsDeleted(q)

\* the store has for p what it had when the cycle started
EntryKept(p) ==
    /\ p \in DOMAIN hashDB <=> p \in DOMAIN pre.db
    /\ p \in DOMAIN hashDB => hashDB[p] = pre.db[p]

OnlyThrough(p, d) ==
    /\ p \in BelowOf[d]
    /\ \A root \in Roots : p \in BelowOf[root] => (root = d \/ d \in BelowOf[root])

C17_Step ==
    (ScanInFlight /\ saved' = "failed") => (hashDB' = hashDB /\ pc' = "wait")

C17_FailedSaveNonFatal == [][C17_Step]_vars

\* the save of a cycle failed, and the next cycle has run with the store
\* the failed save left
C17_Witness ==
    /\ PostScan
    /\ cycle = 2
    /\ pre.saved = "failed"
    /\ pre.db # EmptyMap

\* ------------------------------------------------------------------------
\* C18: when saveHashDB failed at the end of a cycle, the next cycle calls
\* saveHashDB again, whether or not it finds a change.
\* ------------------------------------------------------------------------

\* the cycle is over and the save of the cycle before it had failed
AfterFailedSave == pc = "wait" /\ cycle = 2 /\ pre.saved = "failed"

C18_SaveRetried == AfterFailedSave => saved # "none"

\* C18, what holds: the next cycle calls saveHashDB when it emits an alert
\* itself, and only then.
C18_SaveRetried_OnChange == AfterFailedSave => (saved # "none" <=> events # <<>>)

\* ------------------------------------------------------------------------
\* C20
\* ------------------------------------------------------------------------

\* the latest alert of the cycle about p
LastEventAt(p) == events[CHOOSE i \in EventsAt(p) : \A j \in EventsAt(p) : j <= i]

\* the entry of p is what the alerts about p say: the new digest of the
\* latest NewFile or ModifiedFile, none after a DeletedFile
EntryAsReported(p) ==
    IF LastEventAt(p).kind = "DeletedFile"
    THEN p \notin DOMAIN hashDB
    ELSE p \in DOMAIN hashDB /\ hashDB[p] = LastEventAt(p).new

\* C20: after a cycle, the store differs from the store the cycle started
\* with only at paths the cycle has emitted an alert about (there the entry
\* is the digest reported by NewFile or ModifiedFile, or is gone after
\* DeletedFile); every other entry is as it was; and the store has changed
\* iff the cycle has emitted an alert.
C20_Frame ==
    PostScan =>
       /\ \A p \in DOMAIN pre.db \cup DOMAIN hashDB \cup Paths :
             IF EventsAt(p) = {} THEN EntryKept(p) ELSE EntryAsReported(p)
       /\ hashDB # pre.db <=> events # <<>>

\* a cycle has reported a deletion, and has left alone the entry of a file
\* that exists with another digest than the stored one
C20_Witness ==
    /\ PostScan
    /\ \E q \in Paths : EventsOfKind("DeletedFile", q) # {}
    /\ \E p \in DOMAIN pre.db :
          /\ fs[p].kind = "file"
          /\ Fingerprint(p) # pre.db[p]
          /\ EventsAt(p) = {}
          /\ hashDB[p] = pre.db[p]

============================================================================
